---- MODULE Spec2Model ----
(***************************************************************************)
(* Model of practice/field_generator_gui.py: the FieldGeneratorGUI field   *)
(* list (add_field, remove_field, clear_all) and the code generator        *)
(* (generate_code, generate_field_code).                                   *)
(*                                                                         *)
(* A Python str is a sequence of one-character strings, so that lower(),   *)
(* strip(), startswith(), float(), sorted() and the f-string formatting    *)
(* are computed character by character.  A character outside ASCII is      *)
(* written as its code point, "U+81EA".                                    *)
(***************************************************************************)
EXTENDS Integers, Sequences, FiniteSets, TLC

VARIABLES fields, field_listbox, code_text, messagebox

vars == <<fields, field_listbox, code_text, messagebox>>

(***************************************************************************)
(* Bounds of the model.                                                    *)
(***************************************************************************)
MaxFields == 2

(***************************************************************************)
(* Python str primitives.                                                  *)
(***************************************************************************)
\* The printable ASCII characters in code point order, 32 .. 126 (the
\* backquote is written as its code point).
Ascii ==
  <<" ","!","\"","#","$","%","&","'","(",")","*","+",",","-",".","/",
    "0","1","2","3","4","5","6","7","8","9",":",";","<","=",">","?","@",
    "A","B","C","D","E","F","G","H","I","J","K","L","M","N","O","P","Q",
    "R","S","T","U","V","W","X","Y","Z","[","\\","]","^","_","U+0060",
    "a","b","c","d","e","f","g","h","i","j","k","l","m","n","o","p","q",
    "r","s","t","u","v","w","x","y","z","{","|","}","~">>

\* ord(c) of a printable ASCII character.
Ord(c) == 31 + (CHOOSE i \in 1..Len(Ascii) : Ascii[i] = c)

Upper == {"A","B","C","D","E","F","G","H","I","J","K","L","M","N","O","P","Q",
          "R","S","T","U","V","W","X","Y","Z"}

Digits == {"0","1","2","3","4","5","6","7","8","9"}

Whitespace == {" "}

\* str.lower() on one character: A-Z map to a-z, the rest is unchanged.
LowerChar(c) == IF c \in Upper THEN Ascii[Ord(c) + 32 - 31] ELSE c

\* str.lower()
lower(s) == [i \in 1..Len(s) |-> LowerChar(s[i])]

RECURSIVE lstrip(_)
lstrip(s) == IF s # <<>> /\ Head(s) \in Whitespace THEN lstrip(Tail(s)) ELSE s

RECURSIVE rstrip(_)
rstrip(s) ==
  IF s # <<>> /\ s[Len(s)] \in Whitespace THEN rstrip(SubSeq(s, 1, Len(s) - 1)) ELSE s

\* str.strip()
strip(s) == rstrip(lstrip(s))

\* str.startswith(prefix)
startswith(s, prefix) ==
  Len(s) >= Len(prefix) /\ SubSeq(s, 1, Len(prefix)) = prefix

\* the Python test "sub in s" on two strings
contains(s, sub) ==
  \E i \in 1..(Len(s) - Len(sub) + 1) : SubSeq(s, i, i + Len(sub) - 1) = sub

\* sep.join(parts)
RECURSIVE join(_, _)
join(sep, parts) ==
  IF parts = <<>> THEN <<>>
  ELSE IF Len(parts) = 1 THEN parts[1]
  ELSE parts[1] \o sep \o join(sep, Tail(parts))

\* a < b on two strings: code point order at the first difference, a proper
\* prefix comes first.
StrLess(a, b) ==
  LET n == IF Len(a) < Len(b) THEN Len(a) ELSE Len(b)
      diff == {i \in 1..n : a[i] # b[i]}
  IN  IF diff = {} THEN Len(a) < Len(b)
      ELSE LET d == CHOOSE i \in diff : \A j \in diff : i <= j
           IN  Ord(a[d]) < Ord(b[d])

\* sorted(S) of a set of strings
RECURSIVE sorted(_)
sorted(S) ==
  IF S = {} THEN <<>>
  ELSE LET m == CHOOSE x \in S : \A y \in S \ {x} : StrLess(x, y)
       IN <<m>> \o sorted(S \ {m})

(***************************************************************************)
(* float(s): whether the built-in accepts the string (it raises ValueError *)
(* otherwise).  Grammar of the built-in for ASCII text: surrounding        *)
(* whitespace, an optional sign, then "inf", "infinity" or "nan" in any    *)
(* letter case, or a decimal number with an optional exponent; single      *)
(* underscores are allowed between digits.                                 *)
(***************************************************************************)
DigitPart(s) ==
  /\ s # <<>>
  /\ \A i \in 1..Len(s) :
       \/ s[i] \in Digits
       \/ /\ s[i] = "_"
          /\ 1 < i
          /\ i < Len(s)
          /\ s[i - 1] \in Digits
          /\ s[i + 1] \in Digits

PointFloat(s) ==
  LET dots == {i \in 1..Len(s) : s[i] = "."}
  IN  IF dots = {} THEN DigitPart(s)
      ELSE /\ Cardinality(dots) = 1
           /\ LET p == CHOOSE i \in dots : TRUE
                  ip == SubSeq(s, 1, p - 1)
                  fp == SubSeq(s, p + 1, Len(s))
              IN  /\ ip # <<>> \/ fp # <<>>
                  /\ ip = <<>> \/ DigitPart(ip)
                  /\ fp = <<>> \/ DigitPart(fp)

Unsigned(s) == IF s # <<>> /\ Head(s) \in {"+", "-"} THEN Tail(s) ELSE s

DecimalFloat(s) ==
  LET es == {i \in 1..Len(s) : s[i] \in {"e", "E"}}
  IN  IF es = {} THEN PointFloat(s)
      ELSE LET p == CHOOSE i \in es : \A j \in es : i <= j
           IN  /\ PointFloat(SubSeq(s, 1, p - 1))
               /\ DigitPart(Unsigned(SubSeq(s, p + 1, Len(s))))

float_accepts(s) ==
  LET u == Unsigned(strip(s))
  IN  \/ lower(u) \in {<<"i","n","f">>, <<"i","n","f","i","n","i","t","y">>, <<"n","a","n">>}
      \/ DecimalFloat(u)

(***************************************************************************)
(* Python values.                                                          *)
(***************************************************************************)
\* None: a value that is no string (its element is not a character).
None == <<"<None>">>

\* truth value of an Optional[str]: None and "" are false.
Truthy(x) == x # None /\ x # <<>>

(***************************************************************************)
(* __init__                                                                *)
(***************************************************************************)
\* self.field_types: the labels of the type combobox (their ASCII part) and
\* the type each stands for.
field_types ==
  [label \in {"int", "str", "bool", "float", "Decimal", "datetime", "date",
              "time", "UUID", "Enum", "Dict", "List[str]"} |->
     CASE label = "int" -> <<"i","n","t">>
       [] label = "str" -> <<"s","t","r">>
       [] label = "bool" -> <<"b","o","o","l">>
       [] label = "float" -> <<"f","l","o","a","t">>
       [] label = "Decimal" -> <<"D","e","c","i","m","a","l">>
       [] label = "datetime" -> <<"d","a","t","e","t","i","m","e">>
       [] label = "date" -> <<"d","a","t","e">>
       [] label = "time" -> <<"t","i","m","e">>
       [] label = "UUID" -> <<"u","u","i","d",".","U","U","I","D">>
       [] label = "Enum" -> <<"E","n","u","m">>
       [] label = "Dict" -> <<"D","i","c","t","[","s","t","r",","," ","A","n","y","]">>
       [] label = "List[str]" -> <<"L","i","s","t","[","s","t","r","]">>]

\* a message box call: the function called and the message shown
Msg(kind, text) == [kind |-> kind, text |-> text]

NoMsg == Msg("none", "")

Init ==
  /\ fields = <<>>
  /\ field_listbox = <<>>
  /\ code_text = <<>>
  /\ messagebox = NoMsg

(***************************************************************************)
(* generate_field_code                                                     *)
(***************************************************************************)
\* A faulty variant: the type is wrapped in Optional[...] on every field.
type_annotation_always_optional(field_info) ==
  <<"O","p","t","i","o","n","a","l","[">> \o field_info.type \o <<"]">>

type_annotation(field_info) ==
  IF field_info.optional
  THEN <<"O","p","t","i","o","n","a","l","[">> \o field_info.type \o <<"]">>
  ELSE field_info.type

\* A faulty variant: the ValueError of float() is not caught, no token is appended.
float_error_uncaught(default) ==
  IF float_accepts(default)
  THEN <<<<"d","e","f","a","u","l","t","=">> \o default>>
  ELSE <<>>

\* ValueError of float() is caught: the default becomes a quoted string.
numeric_or_string_default(default) ==
  IF float_accepts(default)
  THEN <<<<"d","e","f","a","u","l","t","=">> \o default>>
  ELSE <<<<"d","e","f","a","u","l","t","=","\"">> \o default \o <<"\"">>>>

\* A faulty variant: the "uuid." branch is missing.
is_factory_default_datetime_only(default) == startswith(default, <<"d","a","t","e","t","i","m","e",".">>)

is_factory_default(default) ==
  startswith(default, <<"d","a","t","e","t","i","m","e",".">>) \/ startswith(default, <<"u","u","i","d",".">>)

\* A faulty variant: the default value is compared without lower().
default_params_case_sensitive(field_info) ==
  IF field_info.default # None
  THEN IF field_info.default \in {<<"n","o","n","e">>, <<"n","u","l","l">>}
       THEN <<<<"d","e","f","a","u","l","t","=","N","o","n","e">>>>
       ELSE IF field_info.default = <<"t","r","u","e">>
       THEN <<<<"d","e","f","a","u","l","t","=","T","r","u","e">>>>
       ELSE IF field_info.default = <<"f","a","l","s","e">>
       THEN <<<<"d","e","f","a","u","l","t","=","F","a","l","s","e">>>>
       ELSE IF is_factory_default(field_info.default)
       THEN <<<<"d","e","f","a","u","l","t","_","f","a","c","t","o","r","y","=">> \o field_info.default>>
       ELSE numeric_or_string_default(field_info.default)
  ELSE IF field_info.optional
  THEN <<<<"d","e","f","a","u","l","t","=","N","o","n","e">>>>
  ELSE <<>>

\* A faulty variant: the rule for an optional field without a default value is missing.
default_params_no_optional_rule(field_info) ==
  IF field_info.default # None
  THEN IF lower(field_info.default) \in {<<"n","o","n","e">>, <<"n","u","l","l">>}
       THEN <<<<"d","e","f","a","u","l","t","=","N","o","n","e">>>>
       ELSE IF lower(field_info.default) = <<"t","r","u","e">>
       THEN <<<<"d","e","f","a","u","l","t","=","T","r","u","e">>>>
       ELSE IF lower(field_info.default) = <<"f","a","l","s","e">>
       THEN <<<<"d","e","f","a","u","l","t","=","F","a","l","s","e">>>>
       ELSE IF is_factory_default(field_info.default)
       THEN <<<<"d","e","f","a","u","l","t","_","f","a","c","t","o","r","y","=">> \o field_info.default>>
       ELSE numeric_or_string_default(field_info.default)
  ELSE <<>>

default_params(field_info) ==
  IF field_info.default # None
  THEN IF lower(field_info.default) \in {<<"n","o","n","e">>, <<"n","u","l","l">>}
       THEN <<<<"d","e","f","a","u","l","t","=","N","o","n","e">>>>
       ELSE IF lower(field_info.default) = <<"t","r","u","e">>
       THEN <<<<"d","e","f","a","u","l","t","=","T","r","u","e">>>>
       ELSE IF lower(field_info.default) = <<"f","a","l","s","e">>
       THEN <<<<"d","e","f","a","u","l","t","=","F","a","l","s","e">>>>
       ELSE IF is_factory_default(field_info.default)
       THEN <<<<"d","e","f","a","u","l","t","_","f","a","c","t","o","r","y","=">> \o field_info.default>>
       ELSE numeric_or_string_default(field_info.default)
  ELSE IF field_info.optional
  THEN <<<<"d","e","f","a","u","l","t","=","N","o","n","e">>>>
  ELSE <<>>

primary_key_params(field_info) ==
  IF field_info.primary_key THEN <<<<"p","r","i","m","a","r","y","_","k","e","y","=","T","r","u","e">>>> ELSE <<>>

\* A faulty variant: the min value is a numeric bound on every type.
min_params_always_ge(field_info) ==
  IF Truthy(field_info.min_value)
  THEN <<<<"g","e","=">> \o field_info.min_value>>
  ELSE <<>>

min_params(field_info) ==
  IF Truthy(field_info.min_value)
  THEN IF field_info.type = <<"s","t","r">>
       THEN <<<<"m","i","n","_","l","e","n","g","t","h","=">> \o field_info.min_value>>
       ELSE <<<<"g","e","=">> \o field_info.min_value>>
  ELSE <<>>

max_params(field_info) ==
  IF Truthy(field_info.max_value)
  THEN IF field_info.type = <<"s","t","r">>
       THEN <<<<"m","a","x","_","l","e","n","g","t","h","=">> \o field_info.max_value>>
       ELSE <<<<"l","e","=">> \o field_info.max_value>>
  ELSE <<>>

\* A faulty variant: the Decimal parameters are appended on every type.
decimal_params_any_type(field_info) ==
  (IF Truthy(field_info.max_value)
   THEN <<<<"m","a","x","_","d","i","g","i","t","s","=">> \o field_info.max_value>>
   ELSE <<>>)
  \o
  (IF Truthy(field_info.decimal_places)
   THEN <<<<"d","e","c","i","m","a","l","_","p","l","a","c","e","s","=">> \o field_info.decimal_places>>
   ELSE <<>>)

decimal_params(field_info) ==
  IF field_info.type = <<"D","e","c","i","m","a","l">>
  THEN (IF Truthy(field_info.max_value)
        THEN <<<<"m","a","x","_","d","i","g","i","t","s","=">> \o field_info.max_value>>
        ELSE <<>>)
       \o
       (IF Truthy(field_info.decimal_places)
        THEN <<<<"d","e","c","i","m","a","l","_","p","l","a","c","e","s","=">> \o field_info.decimal_places>>
        ELSE <<>>)
  ELSE <<>>

description_params(field_info) ==
  IF Truthy(field_info.description)
  THEN <<<<"d","e","s","c","r","i","p","t","i","o","n","=","\"">> \o field_info.description \o <<"\"">>>>
  ELSE <<>>

\* A faulty variant: the primary key rule runs before the default rule.
field_params_primary_key_first(field_info) ==
  primary_key_params(field_info)
  \o default_params(field_info)
  \o min_params(field_info)
  \o max_params(field_info)
  \o decimal_params(field_info)
  \o description_params(field_info)

\* the list field_params when the last rule has run
field_params(field_info) ==
  default_params(field_info)
  \o primary_key_params(field_info)
  \o min_params(field_info)
  \o max_params(field_info)
  \o decimal_params(field_info)
  \o description_params(field_info)

field_def(params) ==
  IF params # <<>>
  THEN <<"F","i","e","l","d","(">> \o join(<<","," ">>, params) \o <<")">>
  ELSE <<"F","i","e","l","d","(",")">>

generate_field_code(field_info) ==
  field_info.name \o <<":"," ">> \o type_annotation(field_info) \o <<" ","="," ">>
  \o field_def(field_params(field_info))

(***************************************************************************)
(* generate_code                                                           *)
(***************************************************************************)
field_imports(field_info) ==
  IF field_info.type = <<"D","e","c","i","m","a","l">>
  THEN {<<"f","r","o","m"," ","d","e","c","i","m","a","l"," ","i","m","p","o","r","t"," ","D","e","c","i","m","a","l">>}
  ELSE IF field_info.type \in {<<"d","a","t","e","t","i","m","e">>, <<"d","a","t","e">>, <<"t","i","m","e">>}
  THEN {<<"f","r","o","m"," ","d","a","t","e","t","i","m","e"," ","i","m","p","o","r","t"," ","d","a","t","e","t","i","m","e",","," ","d","a","t","e",","," ","t","i","m","e">>}
  ELSE IF field_info.type = <<"u","u","i","d",".","U","U","I","D">>
  THEN {<<"i","m","p","o","r","t"," ","u","u","i","d">>}
  ELSE IF contains(field_info.type, <<"D","i","c","t">>) \/ contains(field_info.type, <<"L","i","s","t">>)
  THEN {<<"f","r","o","m"," ","t","y","p","i","n","g"," ","i","m","p","o","r","t"," ","D","i","c","t",","," ","L","i","s","t",","," ","A","n","y">>}
  ELSE {}

\* A faulty variant: "from typing import Optional" is added only when a field
\* is optional.
imports_optional_on_demand(fs) ==
  {<<"f","r","o","m"," ","s","q","l","m","o","d","e","l"," ","i","m","p","o","r","t"," ","S","Q","L","M","o","d","e","l",","," ","F","i","e","l","d">>}
  \cup (IF \E i \in 1..Len(fs) : fs[i].optional
        THEN {<<"f","r","o","m"," ","t","y","p","i","n","g"," ","i","m","p","o","r","t"," ","O","p","t","i","o","n","a","l">>}
        ELSE {})
  \cup UNION {field_imports(fs[i]) : i \in 1..Len(fs)}

imports(fs) ==
  {<<"f","r","o","m"," ","t","y","p","i","n","g"," ","i","m","p","o","r","t"," ","O","p","t","i","o","n","a","l">>, <<"f","r","o","m"," ","s","q","l","m","o","d","e","l"," ","i","m","p","o","r","t"," ","S","Q","L","M","o","d","e","l",","," ","F","i","e","l","d">>}
  \cup UNION {field_imports(fs[i]) : i \in 1..Len(fs)}

Indent == <<" "," "," "," ">>

DocLine ==
  Indent \o <<"\"","\"","\"">>
  \o <<"U+81EA", "U+52A8", "U+751F", "U+6210", "U+7684", "U+6A21", "U+578B", "U+7C7B">>
  \o <<"\"","\"","\"">>

\* A faulty variant: the declarations are written last field first.
field_lines_reversed(fs) ==
  [i \in 1..Len(fs) |-> Indent \o generate_field_code(fs[Len(fs) + 1 - i])]

field_lines(fs) == [i \in 1..Len(fs) |-> Indent \o generate_field_code(fs[i])]

\* A faulty variant: the imports are kept in a list, one entry per field, and
\* not in a set.
code_lines_imports_per_field(fs) ==
  sorted({<<"f","r","o","m"," ","t","y","p","i","n","g"," ","i","m","p","o","r","t"," ","O","p","t","i","o","n","a","l">>, <<"f","r","o","m"," ","s","q","l","m","o","d","e","l"," ","i","m","p","o","r","t"," ","S","Q","L","M","o","d","e","l",","," ","F","i","e","l","d">>})
  \o [i \in 1..Len(fs) |->
        IF field_imports(fs[i]) = {} THEN <<"f","r","o","m"," ","t","y","p","i","n","g"," ","i","m","p","o","r","t"," ","O","p","t","i","o","n","a","l">>
        ELSE CHOOSE line \in field_imports(fs[i]) : TRUE]
  \o <<<<>>>>
  \o <<<<"c","l","a","s","s"," ","G","e","n","e","r","a","t","e","d","M","o","d","e","l","(","S","Q","L","M","o","d","e","l",","," ","t","a","b","l","e","=","T","r","u","e",")",":">>>>
  \o <<DocLine>>
  \o <<<<>>>>
  \o field_lines(fs)

code_lines(fs) ==
  sorted(imports(fs))
  \o <<<<>>>>
  \o <<<<"c","l","a","s","s"," ","G","e","n","e","r","a","t","e","d","M","o","d","e","l","(","S","Q","L","M","o","d","e","l",","," ","t","a","b","l","e","=","T","r","u","e",")",":">>>>
  \o <<DocLine>>
  \o <<<<>>>>
  \o field_lines(fs)

Newline == <<"\n">>

\* A faulty variant: the code area is not emptied before the insert at its
\* start.
generate_code_no_delete ==
  IF fields = <<>>
  THEN /\ messagebox' = Msg("showwarning", "add a field first")
       /\ UNCHANGED <<fields, field_listbox, code_text>>
  ELSE /\ code_text' = join(Newline, code_lines(fields)) \o code_text
       /\ messagebox' = Msg("showinfo", "code generated")
       /\ UNCHANGED <<fields, field_listbox>>

\* A faulty variant: the check for an empty field list is missing.
generate_code_unguarded ==
  /\ code_text' = join(Newline, code_lines(fields))
  /\ messagebox' = Msg("showinfo", "code generated")
  /\ UNCHANGED <<fields, field_listbox>>

generate_code ==
  IF fields = <<>>
  THEN /\ messagebox' = Msg("showwarning", "add a field first")
       /\ UNCHANGED <<fields, field_listbox, code_text>>
  ELSE /\ code_text' = join(Newline, code_lines(fields))
       /\ messagebox' = Msg("showinfo", "code generated")
       /\ UNCHANGED <<fields, field_listbox>>

(***************************************************************************)
(* add_field, remove_field, clear_all                                      *)
(***************************************************************************)
\* A faulty variant: the text "0" counts as no value.
stripped_nonzero_or_none(value) ==
  IF strip(value) # <<>> /\ strip(value) # <<"0">> THEN strip(value) ELSE None

\* value.strip() if value.strip() else None
stripped_or_none(value) == IF strip(value) # <<>> THEN strip(value) ELSE None

\* the dictionary add_field builds from the input widgets
new_field_info(form) ==
  [name |-> strip(form.name),
   type |-> field_types[form.type],
   optional |-> form.optional,
   primary_key |-> form.primary_key,
   default |-> stripped_or_none(form.default),
   description |-> stripped_or_none(form.description),
   min_value |-> stripped_or_none(form.min_value),
   max_value |-> stripped_or_none(form.max_value),
   decimal_places |-> stripped_or_none(form.decimal_places)]

display_text(field_info) ==
  field_info.name \o <<" ","(">> \o field_info.type \o <<")">>
  \o (IF field_info.optional THEN <<" ", "[", "U+53EF", "U+9009", "]">> ELSE <<>>)
  \o (IF field_info.primary_key THEN <<" ", "[", "U+4E3B", "U+952E", "]">> ELSE <<>>)

\* A faulty variant: the check of the field name is missing.
add_field_of_unchecked_name(form) ==
  IF form.type = ""
  THEN /\ messagebox' = Msg("showerror", "select a field type")
       /\ UNCHANGED <<fields, field_listbox, code_text>>
  ELSE /\ fields' = Append(fields, new_field_info(form))
       /\ field_listbox' = Append(field_listbox, display_text(new_field_info(form)))
       /\ messagebox' = Msg("showinfo", "field added")
       /\ UNCHANGED code_text

\* add_field with the input widgets holding form
add_field_of(form) ==
  IF strip(form.name) = <<>>
  THEN /\ messagebox' = Msg("showerror", "enter a field name")
       /\ UNCHANGED <<fields, field_listbox, code_text>>
  ELSE IF form.type = ""
  THEN /\ messagebox' = Msg("showerror", "select a field type")
       /\ UNCHANGED <<fields, field_listbox, code_text>>
  ELSE /\ fields' = Append(fields, new_field_info(form))
       /\ field_listbox' = Append(field_listbox, display_text(new_field_info(form)))
       /\ messagebox' = Msg("showinfo", "field added")
       /\ UNCHANGED code_text

\* del seq[index], index counted from 0
delete_at(seq, index) ==
  SubSeq(seq, 1, index) \o SubSeq(seq, index + 2, Len(seq))

\* A faulty variant: the line is deleted from the listbox, the field stays in
\* the list.
remove_field_of_listbox_only(selection) ==
  IF selection = {}
  THEN /\ messagebox' = Msg("showwarning", "select a field to remove")
       /\ UNCHANGED <<fields, field_listbox, code_text>>
  ELSE LET index == CHOOSE i \in selection : \A j \in selection : i <= j
       IN  /\ field_listbox' = delete_at(field_listbox, index)
           /\ messagebox' = Msg("showinfo", "field removed")
           /\ UNCHANGED <<fields, code_text>>

\* remove_field with the listbox selection being selection (a set of indices)
remove_field_of(selection) ==
  IF selection = {}
  THEN /\ messagebox' = Msg("showwarning", "select a field to remove")
       /\ UNCHANGED <<fields, field_listbox, code_text>>
  ELSE LET index == CHOOSE i \in selection : \A j \in selection : i <= j
       IN  /\ fields' = delete_at(fields, index)
           /\ field_listbox' = delete_at(field_listbox, index)
           /\ messagebox' = Msg("showinfo", "field removed")
           /\ UNCHANGED code_text

\* clear_all with the user's answer to the confirmation dialog
clear_all_of(answer) ==
  IF answer
  THEN /\ fields' = <<>>
       /\ field_listbox' = <<>>
       /\ code_text' = <<>>
       /\ messagebox' = Msg("askyesno", "yes")
  ELSE /\ messagebox' = Msg("askyesno", "no")
       /\ UNCHANGED <<fields, field_listbox, code_text>>

(***************************************************************************)
(* The session of the tool: the user fills the input widgets and presses   *)
(* the buttons in any order.                                               *)
(***************************************************************************)
Form(name, type, optional, primary_key, default, description, min_value, max_value, decimal_places) ==
  [name |-> name, type |-> type, optional |-> optional,
   primary_key |-> primary_key, default |-> default,
   description |-> description, min_value |-> min_value,
   max_value |-> max_value, decimal_places |-> decimal_places]

\* what the user enters in a session
SessionForms ==
  {Form(<<"a","g","e">>, "int", TRUE, FALSE, <<>>, <<>>, <<"0">>, <<"1","5","0">>, <<>>),
   Form(<<" ","p","r","i","c","e"," ">>, "Decimal", FALSE, FALSE, <<>>, <<>>, <<>>, <<"8">>, <<"2">>),
   Form(<<"c","r","e","a","t","e","d">>, "datetime", FALSE, FALSE, <<"d","a","t","e","t","i","m","e",".","n","o","w">>, <<"w","h","e","n">>, <<>>, <<>>, <<>>),
   Form(<<"i","d">>, "UUID", FALSE, TRUE, <<"u","u","i","d",".","u","u","i","d","4">>, <<>>, <<>>, <<>>, <<>>),
   Form(<<"t","a","g","s">>, "List[str]", TRUE, FALSE, <<>>, <<>>, <<>>, <<"0">>, <<>>),
   Form(<<" "," ">>, "int", FALSE, FALSE, <<>>, <<>>, <<>>, <<>>, <<>>),
   Form(<<>>, "str", FALSE, FALSE, <<"1">>, <<>>, <<>>, <<>>, <<>>),
   Form(<<"n","a","m","e">>, "", FALSE, FALSE, <<>>, <<>>, <<>>, <<>>, <<>>)}

add_field ==
  /\ Len(fields) < MaxFields
  /\ \E form \in SessionForms : add_field_of(form)

\* the listbox selects at most one line
remove_field ==
  \E selection \in {{}} \cup {{i} : i \in 0..(Len(field_listbox) - 1)} :
    remove_field_of(selection)

clear_all == \E answer \in BOOLEAN : clear_all_of(answer)

Next == add_field \/ remove_field \/ clear_all \/ generate_code

Spec == Init /\ [][Next]_vars

(***************************************************************************)
(* generate_field_code as a function of field_info: generate_code is       *)
(* applied to a list of one field, which ranges over every combination of  *)
(* the values below (for each key, values that add_field stores under it). *)
(***************************************************************************)
FieldNames == {<<"a","g","e">>}

FieldTypes == {field_types[label] : label \in DOMAIN field_types}

FieldDefaults ==
  {None, <<"N","o","n","e">>, <<"N","U","L","L">>, <<"t","r","u","e">>, <<"T","R","U","E">>, <<"F","a","l","s","e">>, <<"d","a","t","e","t","i","m","e",".","n","o","w">>,
   <<"D","a","t","e","T","i","m","e",".","n","o","w">>, <<"u","u","i","d",".","u","u","i","d","4">>, <<"U","u","i","d",".","u","u","i","d","4">>, <<"0">>, <<"-","3",".","1","4">>, <<"n","a","n">>,
   <<"a","b","c">>, <<"1",".","2",".","3">>}

FieldDescriptions == {None, <<"t","h","e"," ","a","g","e">>}

FieldMinValues == {None, <<"0">>, <<"5">>}

FieldMaxValues == {None, <<"0">>, <<"8">>, <<"1","5","0">>}

FieldDecimalPlaces == {None, <<"2">>}

FieldInit ==
  /\ \/ fields = <<>>
     \/ \E n \in FieldNames, t \in FieldTypes, o \in BOOLEAN, pk \in BOOLEAN,
           d \in FieldDefaults, de \in FieldDescriptions, mi \in FieldMinValues,
           ma \in FieldMaxValues, dp \in FieldDecimalPlaces :
          fields = <<[name |-> n, type |-> t, optional |-> o, primary_key |-> pk,
                      default |-> d, description |-> de, min_value |-> mi,
                      max_value |-> ma, decimal_places |-> dp]>>
  /\ field_listbox = [i \in 1..Len(fields) |-> display_text(fields[i])]
  /\ code_text = <<>>
  /\ messagebox = NoMsg

FieldNext == generate_code

FieldSpec == FieldInit /\ [][FieldNext]_vars

(***************************************************************************)
(* generate_code as a function of the field list: the list ranges over     *)
(* every list of at most MaxFields fields, each of any of the 12 types and *)
(* optional or not.                                                        *)
(***************************************************************************)
TypedField(t, o) ==
  [name |-> <<"f">>, type |-> t, optional |-> o, primary_key |-> FALSE,
   default |-> None, description |-> None, min_value |-> None,
   max_value |-> None, decimal_places |-> None]

TypedFields == {TypedField(t, o) : t \in FieldTypes, o \in BOOLEAN}

ImportInit ==
  /\ fields \in UNION {[1..n -> TypedFields] : n \in 0..MaxFields}
  /\ field_listbox = [i \in 1..Len(fields) |-> display_text(fields[i])]
  /\ code_text = <<>>
  /\ messagebox = NoMsg

ImportNext == generate_code

ImportSpec == ImportInit /\ [][ImportNext]_vars

(***************************************************************************)
(* Reading the generated text.                                             *)
(***************************************************************************)
\* the positions of the line breaks of the text
LineBreaks(text) == {i \in 1..Len(text) : text[i] = "\n"}

\* text.split("\n")[k - 1]
LineOf(text, k) ==
  LET breaks == LineBreaks(text)
      \* the position of the k-th line break; 0 and Len(text) + 1 bound the text
      break(n) == IF n = 0 THEN 0
                  ELSE IF n > Cardinality(breaks) THEN Len(text) + 1
                  ELSE CHOOSE p \in breaks : Cardinality({q \in breaks : q <= p}) = n
  IN  SubSeq(text, break(k - 1) + 1, break(k) - 1)

\* len(text.split("\n"))
NumLines(text) == Cardinality(LineBreaks(text)) + 1

\* the last button pressed was generate_code, with a result
Generated == messagebox = Msg("showinfo", "code generated")

\* the last button pressed was generate_code, refused
Refused == messagebox = Msg("showwarning", "add a field first")

OutputLine(k) == LineOf(code_text, k)

\* the lines before the blank line, the class header, the documentation line
\* and the blank line that precede the declarations
NumImportLines == NumLines(code_text) - Len(fields) - 4

IsImportLine(line) == startswith(line, <<"f","r","o","m"," ">>) \/ startswith(line, <<"i","m","p","o","r","t"," ">>)

ClassHeader == <<"c","l","a","s","s"," ","G","e","n","e","r","a","t","e","d","M","o","d","e","l","(","S","Q","L","M","o","d","e","l",","," ","t","a","b","l","e","=","T","r","u","e",")",":">>

DeclarationLine(i) == OutputLine(NumImportLines + 4 + i)

(***************************************************************************)
(* Claims.                                                                 *)
(***************************************************************************)
\* C1: on a list of one or more fields generate_code does not fail, and its
\* output is the import lines, a blank line, the class header, the
\* documentation line, a blank line, and then one indented declaration line per
\* field, the i-th line being the declaration of the i-th field.
C1_OutputLayout ==
  /\ Refused => fields = <<>>
  /\ Generated =>
       /\ fields # <<>>
       /\ NumImportLines >= 1
       /\ \A k \in 1..NumImportLines : IsImportLine(OutputLine(k))
       /\ OutputLine(NumImportLines + 1) = <<>>
       /\ OutputLine(NumImportLines + 2) = ClassHeader
       /\ OutputLine(NumImportLines + 3) = DocLine
       /\ OutputLine(NumImportLines + 4) = <<>>
       /\ \A i \in 1..Len(fields) :
            DeclarationLine(i) = Indent \o generate_field_code(fields[i])

C1_Witness ==
  /\ Generated
  /\ Len(fields) = 2
  /\ fields[1].name = <<"p","r","i","c","e">>
  /\ fields[2].name = <<"a","g","e">>
  /\ DeclarationLine(2) = <<" "," "," "," ","a","g","e",":"," ","O","p","t","i","o","n","a","l","[","i","n","t","]"," ","="," ","F","i","e","l","d","(","d","e","f","a","u","l","t","=","N","o","n","e",","," ","g","e","=","0",","," ","l","e","=","1","5","0",")">>

\* C2: generate_code on an empty field list is refused with the warning, and
\* the step changes neither the field list, nor the listbox, nor the text of
\* the code area (no import line, header or declaration is written).
C2_EmptyRefused ==
  [][(fields = <<>> /\ generate_code) =>
       (/\ messagebox' = Msg("showwarning", "add a field first")
        /\ fields' = fields
        /\ field_listbox' = field_listbox
        /\ code_text' = code_text)]_vars

\* generate_code was refused on a list emptied by remove_field, and the text
\* generated before is still in the code area
C2_Witness == Refused /\ fields = <<>> /\ code_text # <<>>

\* C3: every stored field has a name that is non-blank and trimmed and a type
\* among the 12 of field_types; add_field with a blank name or no type shows
\* an error and leaves the list unchanged, any other add_field appends one
\* field at the end of the list.
C3_StoredFieldsValid ==
  /\ [](/\ Cardinality(FieldTypes) = 12
        /\ \A i \in 1..Len(fields) :
             /\ fields[i].name # <<>>
             /\ strip(fields[i].name) = fields[i].name
             /\ fields[i].type \in FieldTypes)
  /\ [][\A form \in SessionForms :
          add_field_of(form) =>
            IF strip(form.name) = <<>> \/ form.type = ""
            THEN messagebox'.kind = "showerror" /\ fields' = fields
            ELSE /\ Len(fields') = Len(fields) + 1
                 /\ SubSeq(fields', 1, Len(fields)) = fields
                 /\ fields'[Len(fields')].name = strip(form.name)
                 /\ fields'[Len(fields')].type = field_types[form.type]]_vars

\* a field was stored after an add_field with a blank name was rejected
C3_Witness ==
  /\ Len(fields) = 1
  /\ fields[1].name = <<"p","r","i","c","e">>
  /\ messagebox = Msg("showerror", "enter a field name")

(***************************************************************************)
(* Reading one declaration: the tokens of field i and where they show.     *)
(***************************************************************************)
Params(i) == field_params(fields[i])

\* the positions of the tokens of field i that begin with prefix
TokensWith(i, prefix) ==
  {k \in 1..Len(Params(i)) : startswith(Params(i)[k], prefix)}

DefaultTokens(i) == TokensWith(i, <<"d","e","f","a","u","l","t","=">>) \cup TokensWith(i, <<"d","e","f","a","u","l","t","_","f","a","c","t","o","r","y","=">>)

\* token is a token of field i, and the only one that begins with prefix
OnlyToken(i, prefix, token) ==
  /\ Cardinality(TokensWith(i, prefix)) = 1
  /\ \A k \in TokensWith(i, prefix) : Params(i)[k] = token

\* the text of declaration line i up to the first token
LineStart(i) ==
  Indent \o fields[i].name \o <<":"," ">> \o type_annotation(fields[i]) \o <<" ","="," ","F","i","e","l","d","(">>

\* line i of the declarations is the declaration of field i
Declared(i) == DeclarationLine(i) = Indent \o generate_field_code(fields[i])

\* token is the one default token of field i and opens its parameter list
DefaultIs(i, token) ==
  /\ DefaultTokens(i) = {1}
  /\ Params(i)[1] = token
  /\ startswith(DeclarationLine(i), LineStart(i) \o token)

DefaultClasses == {"null", "boolean", "factory", "numeric", "string"}

\* the token has the form of the class, for the raw default value d
InClass(class, token, d) ==
  CASE class = "null" -> token = <<"d","e","f","a","u","l","t","=","N","o","n","e">>
    [] class = "boolean" -> token \in {<<"d","e","f","a","u","l","t","=","T","r","u","e">>, <<"d","e","f","a","u","l","t","=","F","a","l","s","e">>}
    [] class = "factory" -> token = <<"d","e","f","a","u","l","t","_","f","a","c","t","o","r","y","=">> \o d
    [] class = "numeric" -> token = <<"d","e","f","a","u","l","t","=">> \o d /\ float_accepts(d)
    [] class = "string" -> token = <<"d","e","f","a","u","l","t","=","\"">> \o d \o <<"\"">>

\* C4: a default value is given exactly one of the five classes and exactly
\* one token, whatever the string; the class does not depend on the rest of the
\* field; a value that is not null, boolean or factory and that float() rejects
\* becomes a quoted string default.
C4_DefaultClassTotal ==
  Generated =>
    \A i \in 1..Len(fields) :
      LET d == fields[i].default
          tokens == default_params(fields[i])
      IN  d # None =>
            /\ Len(tokens) = 1
            /\ Cardinality({c \in DefaultClasses : InClass(c, tokens[1], d)}) = 1
            /\ DefaultIs(i, tokens[1])
            /\ \A t \in FieldTypes :
                 default_params([fields[i] EXCEPT !.type = t]) = tokens
            /\ default_params([fields[i] EXCEPT !.optional = ~fields[i].optional]) = tokens
            /\ ( /\ lower(d) \notin {<<"n","o","n","e">>, <<"n","u","l","l">>, <<"t","r","u","e">>, <<"f","a","l","s","e">>}
                 /\ ~startswith(d, <<"d","a","t","e","t","i","m","e",".">>)
                 /\ ~startswith(d, <<"u","u","i","d",".">>)
                 /\ ~float_accepts(d) )
               => InClass("string", tokens[1], d)

C4_Witness ==
  /\ Generated
  /\ fields[1].default = <<"1",".","2",".","3">>
  /\ fields[1].type = <<"f","l","o","a","t">>
  /\ DefaultIs(1, <<"d","e","f","a","u","l","t","=","\"","1",".","2",".","3","\"">>)

\* C5: on any type, a default value equal to "none" or "null" in any letter
\* case gives default=None, "true" gives default=True and "false" gives
\* default=False, as the only default token of the declaration.
C5_NullAndBooleanDefaults ==
  Generated =>
    \A i \in 1..Len(fields) :
      LET d == fields[i].default
      IN  d # None =>
            /\ lower(d) \in {<<"n","o","n","e">>, <<"n","u","l","l">>} => DefaultIs(i, <<"d","e","f","a","u","l","t","=","N","o","n","e">>)
            /\ lower(d) = <<"t","r","u","e">> => DefaultIs(i, <<"d","e","f","a","u","l","t","=","T","r","u","e">>)
            /\ lower(d) = <<"f","a","l","s","e">> => DefaultIs(i, <<"d","e","f","a","u","l","t","=","F","a","l","s","e">>)

C5_Witness ==
  /\ Generated
  /\ fields[1].default = <<"T","R","U","E">>
  /\ fields[1].type = <<"b","o","o","l">>
  /\ DefaultIs(1, <<"d","e","f","a","u","l","t","=","T","r","u","e">>)

\* C6 as claimed: a default value that begins with "datetime." or "uuid." in
\* any letter case gives default_factory=<value> and no default= token.
C6_FactoryAnyCase ==
  Generated =>
    \A i \in 1..Len(fields) :
      LET d == fields[i].default
      IN  (d # None /\ (\/ startswith(lower(d), <<"d","a","t","e","t","i","m","e",".">>)
                        \/ startswith(lower(d), <<"u","u","i","d",".">>)))
            => DefaultIs(i, <<"d","e","f","a","u","l","t","_","f","a","c","t","o","r","y","=">> \o d)

\* C6, amended: a default value that begins with "datetime." or "uuid."
\* written exactly so, in lower case, gives default_factory=<value> and no
\* default= token; a value that begins with one of them only up to letter case
\* gives no default_factory token but a quoted string default.
C6_FactoryExactCase ==
  Generated =>
    \A i \in 1..Len(fields) :
      LET d == fields[i].default
      IN  d # None =>
            IF startswith(d, <<"d","a","t","e","t","i","m","e",".">>) \/ startswith(d, <<"u","u","i","d",".">>)
            THEN DefaultIs(i, <<"d","e","f","a","u","l","t","_","f","a","c","t","o","r","y","=">> \o d)
            ELSE (\/ startswith(lower(d), <<"d","a","t","e","t","i","m","e",".">>)
                  \/ startswith(lower(d), <<"u","u","i","d",".">>))
                   => DefaultIs(i, <<"d","e","f","a","u","l","t","=","\"">> \o d \o <<"\"">>)

C6_Witness ==
  /\ Generated
  /\ fields[1].default = <<"u","u","i","d",".","u","u","i","d","4">>
  /\ DefaultIs(1, <<"d","e","f","a","u","l","t","_","f","a","c","t","o","r","y","=","u","u","i","d",".","u","u","i","d","4">>)

\* C7: an optional field is declared Optional[<type>] and has exactly one
\* default token: default=None when no default value is given, else the token
\* of the given default value; a field that is not optional and has no default
\* value has no default token.
C7_OptionalHasDefault ==
  Generated =>
    \A i \in 1..Len(fields) :
      LET d == fields[i].default
      IN  /\ Declared(i)
          /\ fields[i].optional =>
               /\ startswith(DeclarationLine(i),
                             Indent \o fields[i].name \o <<":"," ","O","p","t","i","o","n","a","l","[">>
                             \o fields[i].type \o <<"]"," ","="," ","F","i","e","l","d","(">>)
               /\ Cardinality(DefaultTokens(i)) = 1
               /\ d = None => DefaultIs(i, <<"d","e","f","a","u","l","t","=","N","o","n","e">>)
               /\ d # None =>
                    <<Params(i)[1]>> = default_params([fields[i] EXCEPT !.optional = FALSE])
          /\ (~fields[i].optional /\ d = None) => DefaultTokens(i) = {}

C7_Witness ==
  /\ Generated
  /\ fields[1].optional
  /\ fields[1].default = None
  /\ fields[1].primary_key
  /\ DeclarationLine(1) = <<" "," "," "," ","a","g","e",":"," ","O","p","t","i","o","n","a","l","[","s","t","r","]"," ","="," ","F","i","e","l","d","(","d","e","f","a","u","l","t","=","N","o","n","e",","," ","p","r","i","m","a","r","y","_","k","e","y","=","T","r","u","e",")">>

\* C8: a min value v gives min_length=v on type str and ge=v on any other
\* type, a max value v gives max_length=v on type str and le=v on any other
\* type; without the value none of the tokens is there; the choice is the same
\* for an optional field and a required one.
C8_BoundTokens ==
  Generated =>
    \A i \in 1..Len(fields) :
      LET mi == fields[i].min_value
          ma == fields[i].max_value
          text == fields[i].type = <<"s","t","r">>
          flipped == [fields[i] EXCEPT !.optional = ~fields[i].optional]
      IN  /\ Declared(i)
          /\ IF mi = None
             THEN TokensWith(i, <<"m","i","n","_","l","e","n","g","t","h","=">>) = {} /\ TokensWith(i, <<"g","e","=">>) = {}
             ELSE IF text
             THEN OnlyToken(i, <<"m","i","n","_","l","e","n","g","t","h","=">>, <<"m","i","n","_","l","e","n","g","t","h","=">> \o mi) /\ TokensWith(i, <<"g","e","=">>) = {}
             ELSE OnlyToken(i, <<"g","e","=">>, <<"g","e","=">> \o mi) /\ TokensWith(i, <<"m","i","n","_","l","e","n","g","t","h","=">>) = {}
          /\ IF ma = None
             THEN TokensWith(i, <<"m","a","x","_","l","e","n","g","t","h","=">>) = {} /\ TokensWith(i, <<"l","e","=">>) = {}
             ELSE IF text
             THEN OnlyToken(i, <<"m","a","x","_","l","e","n","g","t","h","=">>, <<"m","a","x","_","l","e","n","g","t","h","=">> \o ma) /\ TokensWith(i, <<"l","e","=">>) = {}
             ELSE OnlyToken(i, <<"l","e","=">>, <<"l","e","=">> \o ma) /\ TokensWith(i, <<"m","a","x","_","l","e","n","g","t","h","=">>) = {}
          /\ min_params(flipped) = min_params(fields[i])
          /\ max_params(flipped) = max_params(fields[i])

C8_Witness ==
  /\ Generated
  /\ fields[1].type = <<"s","t","r">>
  /\ fields[1].optional
  /\ DeclarationLine(1) = <<" "," "," "," ","a","g","e",":"," ","O","p","t","i","o","n","a","l","[","s","t","r","]"," ","="," ","F","i","e","l","d","(","d","e","f","a","u","l","t","=","N","o","n","e",","," ","m","i","n","_","l","e","n","g","t","h","=","5",","," ","m","a","x","_","l","e","n","g","t","h","=","1","5","0",")">>

\* C9: a min or max value "0" is stored by add_field, not dropped, and gives
\* its token in the declaration; the field age, int, optional, min "0",
\* max "150" is declared age: Optional[int] = Field(default=None, ge=0, le=150).
C9_ZeroBoundKept ==
  /\ [](Generated =>
          \A i \in 1..Len(fields) :
            /\ Declared(i)
            /\ fields[i].min_value = <<"0">> =>
                 OnlyToken(i, <<"g","e","=">>, <<"g","e","=","0">>) \/ OnlyToken(i, <<"m","i","n","_","l","e","n","g","t","h","=">>, <<"m","i","n","_","l","e","n","g","t","h","=","0">>)
            /\ fields[i].max_value = <<"0">> =>
                 OnlyToken(i, <<"l","e","=">>, <<"l","e","=","0">>) \/ OnlyToken(i, <<"m","a","x","_","l","e","n","g","t","h","=">>, <<"m","a","x","_","l","e","n","g","t","h","=","0">>)
            /\ ( /\ fields[i].name = <<"a","g","e">>
                 /\ fields[i].type = <<"i","n","t">>
                 /\ fields[i].optional
                 /\ ~fields[i].primary_key
                 /\ fields[i].default = None
                 /\ fields[i].description = None
                 /\ fields[i].min_value = <<"0">>
                 /\ fields[i].max_value = <<"1","5","0">> )
               => DeclarationLine(i) =
                    <<" "," "," "," ","a","g","e",":"," ","O","p","t","i","o","n","a","l","[","i","n","t","]"," ","="," ","F","i","e","l","d","(","d","e","f","a","u","l","t","=","N","o","n","e",","," ","g","e","=","0",","," ","l","e","=","1","5","0",")">>)
  /\ [][\A form \in SessionForms :
          (add_field_of(form) /\ fields' # fields) =>
            /\ strip(form.min_value) = <<"0">> => fields'[Len(fields')].min_value = <<"0">>
            /\ strip(form.max_value) = <<"0">> => fields'[Len(fields')].max_value = <<"0">>]_vars

C9_Witness ==
  /\ Generated
  /\ Len(fields) = 2
  /\ fields[1].max_value = <<"0">>
  /\ fields[2].min_value = <<"0">>
  /\ DeclarationLine(1) = <<" "," "," "," ","t","a","g","s",":"," ","O","p","t","i","o","n","a","l","[","L","i","s","t","[","s","t","r","]","]"," ","="," ","F","i","e","l","d","(","d","e","f","a","u","l","t","=","N","o","n","e",","," ","l","e","=","0",")">>
  /\ DeclarationLine(2) = <<" "," "," "," ","a","g","e",":"," ","O","p","t","i","o","n","a","l","[","i","n","t","]"," ","="," ","F","i","e","l","d","(","d","e","f","a","u","l","t","=","N","o","n","e",","," ","g","e","=","0",","," ","l","e","=","1","5","0",")">>

\* C10: on type Decimal, max_digits=<max value> is a token exactly when the
\* max value is given (le=<max value> is a token as well) and
\* decimal_places=<decimal places> is a token exactly when the decimal places
\* are given; on any other type there is no max_digits and no decimal_places
\* token, whatever the field's decimal places.
C10_DecimalTokens ==
  Generated =>
    \A i \in 1..Len(fields) :
      LET ma == fields[i].max_value
          dp == fields[i].decimal_places
      IN  /\ Declared(i)
          /\ IF fields[i].type = <<"D","e","c","i","m","a","l">>
             THEN /\ IF ma = None
                     THEN TokensWith(i, <<"m","a","x","_","d","i","g","i","t","s","=">>) = {}
                     ELSE /\ OnlyToken(i, <<"m","a","x","_","d","i","g","i","t","s","=">>, <<"m","a","x","_","d","i","g","i","t","s","=">> \o ma)
                          /\ OnlyToken(i, <<"l","e","=">>, <<"l","e","=">> \o ma)
                  /\ IF dp = None
                     THEN TokensWith(i, <<"d","e","c","i","m","a","l","_","p","l","a","c","e","s","=">>) = {}
                     ELSE OnlyToken(i, <<"d","e","c","i","m","a","l","_","p","l","a","c","e","s","=">>, <<"d","e","c","i","m","a","l","_","p","l","a","c","e","s","=">> \o dp)
             ELSE /\ TokensWith(i, <<"m","a","x","_","d","i","g","i","t","s","=">>) = {}
                  /\ TokensWith(i, <<"d","e","c","i","m","a","l","_","p","l","a","c","e","s","=">>) = {}

C10_Witness ==
  /\ Generated
  /\ fields[1].type = <<"D","e","c","i","m","a","l">>
  /\ DeclarationLine(1) = <<" "," "," "," ","a","g","e",":"," ","D","e","c","i","m","a","l"," ","="," ","F","i","e","l","d","(","l","e","=","8",","," ","m","a","x","_","d","i","g","i","t","s","=","8",","," ","d","e","c","i","m","a","l","_","p","l","a","c","e","s","=","2",")">>

(***************************************************************************)
(* Reading the import lines.                                               *)
(***************************************************************************)
\* how many of the import lines are the line
ImportCount(line) ==
  Cardinality({k \in 1..NumImportLines : OutputLine(k) = line})

\* some field has one of the types
SomeFieldOf(types) == \E i \in 1..Len(fields) : fields[i].type \in types

BaseImports ==
  {<<"f","r","o","m"," ","t","y","p","i","n","g"," ","i","m","p","o","r","t"," ","O","p","t","i","o","n","a","l">>, <<"f","r","o","m"," ","s","q","l","m","o","d","e","l"," ","i","m","p","o","r","t"," ","S","Q","L","M","o","d","e","l",","," ","F","i","e","l","d">>}

DecimalImport == <<"f","r","o","m"," ","d","e","c","i","m","a","l"," ","i","m","p","o","r","t"," ","D","e","c","i","m","a","l">>

DateTimeImport == <<"f","r","o","m"," ","d","a","t","e","t","i","m","e"," ","i","m","p","o","r","t"," ","d","a","t","e","t","i","m","e",","," ","d","a","t","e",","," ","t","i","m","e">>

UuidImport == <<"i","m","p","o","r","t"," ","u","u","i","d">>

ContainerImport == <<"f","r","o","m"," ","t","y","p","i","n","g"," ","i","m","p","o","r","t"," ","D","i","c","t",","," ","L","i","s","t",","," ","A","n","y">>

\* the import a type calls for and the types that call for it
TypeImports ==
  {<<DecimalImport, {<<"D","e","c","i","m","a","l">>}>>,
   <<DateTimeImport, {<<"d","a","t","e","t","i","m","e">>, <<"d","a","t","e">>, <<"t","i","m","e">>}>>,
   <<UuidImport, {<<"u","u","i","d",".","U","U","I","D">>}>>,
   <<ContainerImport, {<<"D","i","c","t","[","s","t","r",","," ","A","n","y","]">>, <<"L","i","s","t","[","s","t","r","]">>}>>}

\* C11: each import that a type calls for is among the import lines once if
\* some field has such a type and not at all otherwise, however many fields
\* have it; with the two base imports, once each, these are all the import
\* lines.
C11_ImportsOnce ==
  Generated =>
    /\ \A ti \in TypeImports :
         ImportCount(ti[1]) = IF SomeFieldOf(ti[2]) THEN 1 ELSE 0
    /\ \A line \in BaseImports : ImportCount(line) = 1
    /\ NumImportLines = 2 + Cardinality({ti \in TypeImports : SomeFieldOf(ti[2])})

\* two datetime fields: the date/time import once, and the two base imports
C11_Witness ==
  /\ Generated
  /\ Len(fields) = 2
  /\ fields[1].type = <<"d","a","t","e","t","i","m","e">>
  /\ fields[2].type = <<"d","a","t","e","t","i","m","e">>
  /\ NumImportLines = 3
  /\ ImportCount(DateTimeImport) = 1

(***************************************************************************)
(* The names a text uses and the names an import line binds.               *)
(***************************************************************************)
Lowercase == {LowerChar(c) : c \in Upper}

IdentifierChars == Upper \cup Lowercase \cup Digits \cup {"_"}

\* the identifier of s that begins at position i
IdentifierAt(s, i) ==
  LET stops == {j \in i..Len(s) : s[j] \notin IdentifierChars}
      end == IF stops = {} THEN Len(s)
             ELSE (CHOOSE j \in stops : \A k \in stops : j <= k) - 1
  IN  SubSeq(s, i, end)

\* the names s refers to: its identifiers, but for a dotted name only the
\* part before the first dot
NamesUsed(s) ==
  {IdentifierAt(s, i) :
     i \in {j \in 1..Len(s) :
              /\ s[j] \in IdentifierChars
              /\ j = 1 \/ s[j - 1] \notin IdentifierChars \cup {"."}}}

\* the names an import statement binds
NamesBound(line) ==
  IF startswith(line, <<"i","m","p","o","r","t"," ">>)
  THEN {SubSeq(line, Len(<<"i","m","p","o","r","t"," ">>) + 1, Len(line))}
  ELSE IF startswith(line, <<"f","r","o","m"," ">>)
  THEN LET at == CHOOSE i \in 1..Len(line) :
                   SubSeq(line, i, i + Len(<<" ","i","m","p","o","r","t"," ">>) - 1) = <<" ","i","m","p","o","r","t"," ">>
       IN  NamesUsed(SubSeq(line, at + Len(<<" ","i","m","p","o","r","t"," ">>), Len(line)))
  ELSE {}

ImportedNames == UNION {NamesBound(OutputLine(k)) : k \in 1..NumImportLines}

BuiltinNames == {<<"i","n","t">>, <<"s","t","r">>, <<"b","o","o","l">>, <<"f","l","o","a","t">>}

\* the names the declaration of field i needs from an import: those of its
\* type annotation and those of its default_factory
NamesNeeded(i) ==
  (NamesUsed(type_annotation(fields[i])) \ BuiltinNames)
  \cup UNION {NamesUsed(SubSeq(Params(i)[k], Len(<<"d","e","f","a","u","l","t","_","f","a","c","t","o","r","y","=">>) + 1, Len(Params(i)[k]))) :
                k \in TokensWith(i, <<"d","e","f","a","u","l","t","_","f","a","c","t","o","r","y","=">>)}

\* C12: every name that a declaration uses in its type annotation or in its
\* default_factory is bound by one of the import lines.
C12_ImportsSufficient ==
  Generated => \A i \in 1..Len(fields) : Declared(i) /\ NamesNeeded(i) \subseteq ImportedNames

\* the fields in the opposite order
ReversedFields == [i \in 1..Len(fields) |-> fields[Len(fields) + 1 - i]]

\* C13: the import lines of every generated text include the two base imports,
\* whether a field is optional or not, and stand in ascending order of their
\* text; they are the same lines, in the same order, for the fields taken in
\* the opposite order.
C13_BaseImportsSorted ==
  Generated =>
    /\ \A line \in BaseImports : ImportCount(line) >= 1
    /\ \A k \in 1..(NumImportLines - 1) : StrLess(OutputLine(k), OutputLine(k + 1))
    /\ \A k \in 1..NumImportLines :
         OutputLine(k) = LineOf(join(Newline, code_lines(ReversedFields)), k)

\* no field is optional, the fields call for imports that sort on both sides
\* of the base imports, and the first field's import is the last line
C13_Witness ==
  /\ Generated
  /\ Len(fields) = 2
  /\ fields[1].type = <<"u","u","i","d",".","U","U","I","D">>
  /\ fields[2].type = <<"D","e","c","i","m","a","l">>
  /\ ~fields[1].optional
  /\ ~fields[2].optional
  /\ NumImportLines = 4
  /\ OutputLine(1) = DecimalImport
  /\ OutputLine(4) = UuidImport

\* the text that generate_code writes for a field list, into an empty code area
TextOf(fs) == join(Newline, code_lines(fs))

\* C14: generate_code leaves the field list and the listbox as they are; the
\* text it leaves in the code area is the text of the current field list,
\* whatever the code area held before; a second generate_code right after the
\* first leaves the same text.
C14_GenerateIsFresh ==
  [][generate_code =>
       /\ fields' = fields
       /\ field_listbox' = field_listbox
       /\ fields # <<>> =>
            /\ code_text' = TextOf(fields)
            /\ NumLines(code_text') = Len(fields) + 4
                 + Cardinality(BaseImports \cup UNION {field_imports(fields[i]) : i \in 1..Len(fields)})
       /\ (Generated /\ fields # <<>>) => code_text' = code_text]_vars

\* the code was generated for a list of two fields of which the first was
\* added last: the text generated for the one field before is replaced
C14_Witness ==
  /\ Generated
  /\ Len(fields) = 2
  /\ fields[1].name = <<"c","r","e","a","t","e","d">>
  /\ fields[2].name = <<"i","d">>
  /\ code_text = TextOf(fields)
  /\ NumImportLines = 4

\* the keys of the parameter tokens, in the order of the rules
TokenKeys ==
  << {<<"d","e","f","a","u","l","t","=">>, <<"d","e","f","a","u","l","t","_","f","a","c","t","o","r","y","=">>},
     {<<"p","r","i","m","a","r","y","_","k","e","y","=">>},
     {<<"m","i","n","_","l","e","n","g","t","h","=">>, <<"g","e","=">>},
     {<<"m","a","x","_","l","e","n","g","t","h","=">>, <<"l","e","=">>},
     {<<"m","a","x","_","d","i","g","i","t","s","=">>},
     {<<"d","e","c","i","m","a","l","_","p","l","a","c","e","s","=">>},
     {<<"d","e","s","c","r","i","p","t","i","o","n","=">>} >>

\* the rules whose key opens the token
RulesOf(token) ==
  {r \in DOMAIN TokenKeys : \E key \in TokenKeys[r] : startswith(token, key)}

\* the text between "Field(" and the closing parenthesis of declaration line i
Clause(i) ==
  SubSeq(DeclarationLine(i), Len(LineStart(i)) + 1, Len(DeclarationLine(i)) - 1)

\* C15: the tokens of a declaration are joined with ", " and each begins with
\* the key of one rule; the rules of the tokens ascend strictly from left to
\* right in the order default or default_factory, primary_key, min, max,
\* max_digits, decimal_places, description, so that no key shows twice; the
\* token primary_key=True is there exactly on a primary key field.
C15_TokenOrder ==
  Generated =>
    \A i \in 1..Len(fields) :
      /\ startswith(DeclarationLine(i), LineStart(i))
      /\ DeclarationLine(i)[Len(DeclarationLine(i))] = ")"
      /\ Clause(i) = join(<<","," ">>, Params(i))
      /\ \A k \in 1..Len(Params(i)) : Cardinality(RulesOf(Params(i)[k])) = 1
      /\ \A k \in 1..(Len(Params(i)) - 1) :
           \A r1 \in RulesOf(Params(i)[k]), r2 \in RulesOf(Params(i)[k + 1]) : r1 < r2
      /\ fields[i].primary_key <=> OnlyToken(i, <<"p","r","i","m","a","r","y","_","k","e","y","=">>, <<"p","r","i","m","a","r","y","_","k","e","y","=","T","r","u","e">>)
      /\ ~fields[i].primary_key => TokensWith(i, <<"p","r","i","m","a","r","y","_","k","e","y","=">>) = {}

\* a Decimal primary key on which every rule has a token
C15_Witness ==
  /\ Generated
  /\ fields[1].primary_key
  /\ Clause(1) = <<"d","e","f","a","u","l","t","=","0",","," ","p","r","i","m","a","r","y","_","k","e","y","=","T","r","u","e",","," ","g","e","=","5",","," ","l","e","=","8",","," ","m","a","x","_","d","i","g","i","t","s","=","8",","," ","d","e","c","i","m","a","l","_","p","l","a","c","e","s","=","2",","," ","d","e","s","c","r","i","p","t","i","o","n","=","\"","t","h","e"," ","a","g","e","\"">>

\* no rule of the parameter clause has its condition met on field i
NoRuleTriggers(i) ==
  /\ fields[i].default = None
  /\ ~fields[i].optional
  /\ ~fields[i].primary_key
  /\ fields[i].min_value = None
  /\ fields[i].max_value = None
  /\ fields[i].description = None
  /\ ~(fields[i].type = <<"D","e","c","i","m","a","l">> /\ fields[i].decimal_places # None)

\* C16: a declaration is the name, ": ", the type annotation, " = Field(", the
\* clause and ")"; the clause is empty exactly when no rule triggers; the type
\* annotation is the type name, inside Optional[...] exactly on an optional
\* field.
C16_DeclarationForm ==
  Generated =>
    \A i \in 1..Len(fields) :
      LET annotation == IF fields[i].optional
                        THEN <<"O","p","t","i","o","n","a","l","[">> \o fields[i].type \o <<"]">>
                        ELSE fields[i].type
          opening == Indent \o fields[i].name \o <<":"," ">> \o annotation \o <<" ","="," ","F","i","e","l","d","(">>
          line == DeclarationLine(i)
      IN  /\ startswith(line, opening)
          /\ Len(line) > Len(opening)
          /\ line[Len(line)] = ")"
          /\ (Len(line) = Len(opening) + 1) <=> NoRuleTriggers(i)
          /\ NoRuleTriggers(i) => line = opening \o <<")">>
          /\ fields[i].type \in FieldTypes

\* a required field on which no rule triggers, its decimal places ignored
C16_Witness ==
  /\ Generated
  /\ NoRuleTriggers(1)
  /\ fields[1].decimal_places # None
  /\ DeclarationLine(1) = <<" "," "," "," ","a","g","e",":"," ","L","i","s","t","[","s","t","r","]"," ","="," ","F","i","e","l","d","(",")">>

\* seq without its element at index (counted from 0), the others in their order
Without(seq, index) ==
  [j \in 1..(Len(seq) - 1) |-> IF j <= index THEN seq[j] ELSE seq[j + 1]]

\* the selections the listbox can hold
Selections == {{}} \cup {{i} : i \in 0..(Len(field_listbox) - 1)}

====
